---- MODULE Spec2Model ----
(***************************************************************************)
(* GCSClient (src/gcs_client.py): a wrapper around the Google Cloud        *)
(* Storage SDK.  Every method is one call into the SDK inside a            *)
(* try/except that logs and returns a sentinel; __init__ configures a      *)
(* process-wide named logger and builds the client handle.                 *)
(*                                                                         *)
(* The state is the remote service (buckets, blobs), the local             *)
(* files, the named logger (level, handlers), the GCSClient instances and  *)
(* the outcome of the last call.                                           *)
(***************************************************************************)
EXTENDS Integers, Sequences, FiniteSets, TLC

VARIABLES svcBuckets, svcBlobs, files, handlers, loggerLevel,
          inst, last, createdOk, uploadedOk, deletedOk

vars == <<svcBuckets, svcBlobs, files, handlers, loggerLevel,
          inst, last, createdOk, uploadedOk, deletedOk>>

svc == <<svcBuckets, svcBlobs>>
logger == <<handlers, loggerLevel>>
hist == <<createdOk, uploadedOk, deletedOk>>

-----------------------------------------------------------------------------
(* Bounds *)

\* GCSClient constructions in one process.
MaxInst == 2
\* Longest local file, in bytes.
MaxLen == 1

-----------------------------------------------------------------------------
(* Strings are sequences of characters, so that `in` and prefix matching   *)
(* are computed on the text.                                               *)

Contains(s, sub) ==
  \E i \in 0..(Len(s) - Len(sub)) : SubSeq(s, i + 1, i + Len(sub)) = sub

StartsWith(s, p) == Len(p) <= Len(s) /\ SubSeq(s, 1, Len(p)) = p

Range(s) == {s[i] : i \in DOMAIN s}

BucketNames == {<<"t", "1">>, <<"b", "4", "0", "3">>}
BlobNames == {<<"a", "/", "x">>}
Prefixes == {<<>>, <<"a", "/">>, <<"x">>}
\* Local files a call may name as its source, and as its destination.
Paths == {"README", "out"}
Destinations == {"out"}
Bytes == {0, 1}
Contents == UNION {[1..n -> Bytes] : n \in 0..MaxLen}
NoName == <<>>
NoPath == ""

-----------------------------------------------------------------------------
(* logging: level numbers, and what a logging call writes.                 *)

LevelNo == [NONE |-> 0, INFO |-> 20, WARNING |-> 30, ERROR |-> 40]
LogLevels == {"INFO", "ERROR"}
\* log_level: int = logging.INFO
DefaultLogLevel == "INFO"

\* Logger.isEnabledFor + callHandlers: one copy per attached handler.
Emitted(lvl, hs, loggerLvl) ==
  IF lvl = "NONE" \/ LevelNo[lvl] < LevelNo[loggerLvl] THEN 0 ELSE Len(hs)

-----------------------------------------------------------------------------
(* Exceptions: classes, their bases, and str(e).                           *)

Bases ==
  [NotFound |-> {"NotFound", "GoogleAPICallError", "Exception"},
   Forbidden |-> {"Forbidden", "GoogleAPICallError", "Exception"},
   Conflict |-> {"Conflict", "GoogleAPICallError", "Exception"},
   ServiceUnavailable |-> {"ServiceUnavailable", "GoogleAPICallError", "Exception"},
   FileNotFoundError |-> {"FileNotFoundError", "OSError", "Exception"},
   TypeError |-> {"TypeError", "Exception"},
   ValueError |-> {"ValueError", "Exception"}]

IsInstance(cls, base) == base \in Bases[cls]

Code ==
  [NotFound |-> <<"4", "0", "4">>, Forbidden |-> <<"4", "0", "3">>,
   Conflict |-> <<"4", "0", "9">>, ServiceUnavailable |-> <<"5", "0", "3">>]

PermissionText == <<"P", "e", "r", "m", "i", "s", "s", "i", "o", "n">>

\* str(e) of an API error: "<code> <message>", the message naming the
\* resource of the request.
Str(cls, resource) ==
  Code[cls] \o <<" ">>
    \o (IF cls = "Forbidden" THEN PermissionText \o <<" ">> ELSE <<>>)
    \o resource

\* Failures the transport or the service may answer any request with.
Faults == {"None", "Forbidden", "ServiceUnavailable"}

-----------------------------------------------------------------------------
(* The storage service behind the SDK calls.                               *)

Key(b, o) == <<b, o>>

RECURSIVE Sum(_)
Sum(s) == IF s = <<>> THEN 0 ELSE s[1] + Sum(Tail(s))

\* The service's content hash: a digest of fixed length.
Md5(data) == <<Len(data) % 2, Sum(data) % 2>>

\* The object the service stores for an upload, with the properties it sets.
NewBlob(o, data) ==
  [name |-> o, size |-> Len(data), content_type |-> "application/octet-stream",
   time_created |-> "t_created", updated |-> "t_updated",
   md5_hash |-> Md5(data), data |-> data]

BlobsIn(b) == {k \in DOMAIN svcBlobs : k[1] = b}

Ok(v) == [exc |-> "None", val |-> v]
Raise(cls) == [exc |-> cls, val |-> <<>>]

\* client.create_bucket(name)
SdkCreateBucket(b, fault) ==
  IF fault # "None" THEN Raise(fault)
  ELSE IF b \in svcBuckets THEN Raise("Conflict")
  ELSE Ok(svcBuckets \cup {b})

\* list(client.list_buckets()): the names in the order the service gives.
SdkListBuckets(fault, order) ==
  IF fault # "None" THEN Raise(fault) ELSE Ok(order)

Orders(S) == {s \in [1..Cardinality(S) -> S] : Range(s) = S}

\* client.bucket(name).exists(): a 404 is answered False, not raised.
SdkBucketExists(b, fault) ==
  IF fault # "None" THEN Raise(fault) ELSE Ok(b \in svcBuckets)

\* [blob.name for blob in bucket.list_blobs(prefix=prefix)]
SdkListBlobs(b, prefix, fault, order) ==
  IF fault # "None" THEN Raise(fault)
  ELSE IF b \notin svcBuckets THEN Raise("NotFound")
  ELSE Ok(order)

Matching(b, prefix) == {k[2] : k \in {j \in BlobsIn(b) : StartsWith(j[2], prefix)}}

\* blob.upload_from_filename(path): opens the local file, then stores it.
SdkUpload(b, o, p, fault) ==
  IF p \notin DOMAIN files THEN Raise("FileNotFoundError")
  ELSE IF fault # "None" THEN Raise(fault)
  ELSE IF b \notin svcBuckets THEN Raise("NotFound")
  ELSE Ok([k \in DOMAIN svcBlobs \cup {Key(b, o)} |->
             IF k = Key(b, o) THEN NewBlob(o, files[p])
             ELSE svcBlobs[k]])

\* blob.download_to_filename(path)
SdkDownload(b, o, fault) ==
  IF fault # "None" THEN Raise(fault)
  ELSE IF Key(b, o) \notin DOMAIN svcBlobs THEN Raise("NotFound")
  ELSE Ok(svcBlobs[Key(b, o)].data)

\* The destination after a download that raised: the SDK has opened it for
\* writing, and removes it or leaves it cut, depending on its version and on
\* the failure.
FilesAfterFailedDownload(p) ==
  {[q \in DOMAIN files \ {p} |-> files[q]],
   [q \in DOMAIN files \cup {p} |-> IF q = p THEN <<>> ELSE files[q]]}

\* blob.reload(): the object's properties.
SdkReload(b, o, fault) ==
  IF fault # "None" THEN Raise(fault)
  ELSE IF Key(b, o) \notin DOMAIN svcBlobs THEN Raise("NotFound")
  ELSE Ok(svcBlobs[Key(b, o)])

\* blob.delete()
SdkDeleteBlob(b, o, fault) ==
  IF fault # "None" THEN Raise(fault)
  ELSE IF Key(b, o) \notin DOMAIN svcBlobs THEN Raise("NotFound")
  ELSE Ok([k \in DOMAIN svcBlobs \ {Key(b, o)} |-> svcBlobs[k]])

\* client.delete_bucket(name): the bucket must be empty.
SdkDeleteBucket(b, fault) ==
  IF fault # "None" THEN Raise(fault)
  ELSE IF b \notin svcBuckets THEN Raise("NotFound")
  ELSE IF BlobsIn(b) # {} THEN Raise("Conflict")
  ELSE Ok(svcBuckets \ {b})

-----------------------------------------------------------------------------
(* Python values a call hands back.                                        *)

\* A value is tagged with its kind; the fields of the other kinds are blank.
NoMeta ==
  [name |-> <<>>, size |-> 0, content_type |-> "", created |-> "", updated |-> "",
   md5_hash |-> <<>>]
None == [kind |-> "None", b |-> FALSE, names |-> <<>>, meta |-> NoMeta, exc |-> ""]
Bool(b) == [None EXCEPT !.kind = "bool", !.b = b]
List(s) == [None EXCEPT !.kind = "list", !.names = s]
Dict(d) == [None EXCEPT !.kind = "dict", !.meta = d]
Exc(cls) == [None EXCEPT !.kind = "exc", !.exc = cls]

\* v is the Python value True.
IsTrue(v) == v = Bool(TRUE)

\* How a call ends: what it returns or raises, and the level it logged at.
Returns(v, lvl) == [outcome |-> "returned", ret |-> v, logged |-> lvl]
Propagates(cls) == [outcome |-> "raised", ret |-> Exc(cls), logged |-> "NONE"]
Reraises(cls, lvl) == [outcome |-> "raised", ret |-> Exc(cls), logged |-> lvl]

Threads == 1..MaxInst

Ready(t) == inst[t].pc = "ready"

\* The record of a finished call of instance t.
Call(op, t, b, o, p, cause, h, hs, lvl, client) ==
  [op |-> op, self |-> t, bucket |-> b, blob |-> o, path |-> p, cause |-> cause,
   outcome |-> h.outcome, ret |-> h.ret, logged |-> h.logged,
   emitted |-> Emitted(h.logged, hs, lvl), client |-> client]

Method(op, t, b, o, p, cause, h) ==
  Call(op, t, b, o, p, cause, h, handlers, loggerLevel, inst[t].client)

-----------------------------------------------------------------------------
(* GCSClient.__init__                                                      *)

\* The check left out: a handler is attached by every construction.
NeedsHandler_always(hs) == TRUE

\* `if not self.logger.handlers`
NeedsHandler(hs) == hs = <<>>

\* self.logger.addHandler(handler), with a StreamHandler made by this call
AddHandler(hs, t) == Append(hs, t)

\* What the process finds when it loads the credentials and builds the client.
CtorEnvs == {"ok", "unset", "missing_file", "malformed", "client_error"}

\* The try block's calls: the failure raised, and whether self.client was assigned.
InitCalls(env) ==
  CASE env = "ok" -> [exc |-> "None", client |-> TRUE]
    [] env = "unset" -> [exc |-> "TypeError", client |-> FALSE]
    [] env = "missing_file" -> [exc |-> "FileNotFoundError", client |-> FALSE]
    [] env = "malformed" -> [exc |-> "ValueError", client |-> FALSE]
    [] env = "client_error" -> [exc |-> "ValueError", client |-> FALSE]

\* The `raise` left out: the failure is logged and swallowed.
init_except_swallowed(e) ==
  IF IsInstance(e, "Exception") THEN Returns(None, "ERROR") ELSE Propagates(e)

\* except Exception as e: self.logger.error(...); raise
init_except(e) ==
  IF IsInstance(e, "Exception") THEN Reraises(e, "ERROR") ELSE Propagates(e)

\* try: ... self.logger.info(...)   except ...
InitTry(env) ==
  LET r == InitCalls(env) IN
  IF r.exc = "None" THEN Returns(None, "INFO") ELSE init_except(r.exc)

\* The whole constructor, run without interruption.
__init__(t, log_level, env) ==
  /\ inst[t].pc = "new"
  /\ \A u \in Threads : u < t => inst[u].pc # "new"
  /\ LET hs == IF NeedsHandler(handlers) THEN AddHandler(handlers, t) ELSE handlers
         h == InitTry(env)
         client == InitCalls(env).client
     IN /\ loggerLevel' = log_level
        /\ handlers' = hs
        /\ inst' = [inst EXCEPT ![t] =
                      [pc |-> IF h.outcome = "returned" THEN "ready" ELSE "raised",
                       log_level |-> log_level, client |-> client]]
        /\ last' = Call("__init__", t, NoName, NoName, NoPath, InitCalls(env).exc,
                        h, hs, log_level, client)
  /\ UNCHANGED <<svc, files, hist>>

\* The constructor as the steps a thread takes, for constructions that run
\* at the same time.  self.logger = getLogger(...); self.logger.setLevel(log_level)
init_logger(t, log_level) ==
  /\ inst[t].pc = "new"
  /\ loggerLevel' = log_level
  /\ inst' = [inst EXCEPT ![t] = [@ EXCEPT !.pc = "L32", !.log_level = log_level]]
  /\ UNCHANGED <<svc, files, handlers, last, hist>>

\* if not self.logger.handlers:
init_check(t) ==
  /\ inst[t].pc = "L32"
  /\ inst' = [inst EXCEPT ![t].pc = IF NeedsHandler(handlers) THEN "L33" ELSE "L38"]
  /\ UNCHANGED <<svc, files, logger, last, hist>>

\* handler = logging.StreamHandler(); ...; self.logger.addHandler(handler)
init_attach(t) ==
  /\ inst[t].pc = "L33"
  /\ handlers' = AddHandler(handlers, t)
  /\ inst' = [inst EXCEPT ![t].pc = "L38"]
  /\ UNCHANGED <<svc, files, loggerLevel, last, hist>>

\* try: ... except Exception as e: ...
init_try(t, env) ==
  /\ inst[t].pc = "L38"
  /\ LET h == InitTry(env)
         client == InitCalls(env).client
     IN /\ inst' = [inst EXCEPT ![t] =
                      [@ EXCEPT !.pc = IF h.outcome = "returned" THEN "ready"
                                       ELSE "raised",
                                !.client = client]]
        /\ last' = Call("__init__", t, NoName, NoName, NoPath, InitCalls(env).exc,
                        h, handlers, loggerLevel, client)
  /\ UNCHANGED <<svc, files, logger, hist>>

-----------------------------------------------------------------------------
(* The methods.  Each <method>_except is the method's except clauses.      *)

create_bucket_except(e) ==
  IF IsInstance(e, "Exception") THEN Returns(Bool(FALSE), "ERROR") ELSE Propagates(e)

create_bucket(t, bucket_name) ==
  /\ Ready(t)
  /\ \E fault \in Faults :
       LET r == SdkCreateBucket(bucket_name, fault)
           h == IF r.exc = "None" THEN Returns(Bool(TRUE), "NONE")
                ELSE create_bucket_except(r.exc)
       IN /\ svcBuckets' = IF r.exc = "None" THEN r.val ELSE svcBuckets
          /\ createdOk' = IF h.outcome = "returned" /\ IsTrue(h.ret)
                          THEN createdOk \cup {bucket_name} ELSE createdOk
          /\ last' = Method("create_bucket", t, bucket_name, NoName, NoPath, r.exc, h)
  /\ UNCHANGED <<svcBlobs, files, logger, inst, uploadedOk, deletedOk>>

list_buckets_except(e) ==
  IF IsInstance(e, "Exception") THEN Returns(List(<<>>), "ERROR") ELSE Propagates(e)

list_buckets(t) ==
  /\ Ready(t)
  /\ \E fault \in Faults, order \in Orders(svcBuckets) :
       LET r == SdkListBuckets(fault, order)
           h == IF r.exc = "None" THEN Returns(List(r.val), "INFO")
                ELSE list_buckets_except(r.exc)
       IN last' = Method("list_buckets", t, NoName, NoName, NoPath, r.exc, h)
  /\ UNCHANGED <<svc, files, logger, inst, hist>>

\* The handle tested in place of its existence: `return bool(bucket)`.
bucket_exists_return_handle(found) == Returns(Bool(TRUE), "NONE")

\* return bucket.exists()
bucket_exists_return(found) == Returns(Bool(found), "NONE")

bucket_exists_except(e, text) ==
  IF IsInstance(e, "Exception")
  THEN IF Contains(text, <<"4", "0", "3">>) \/ Contains(text, PermissionText)
       THEN Returns(Bool(FALSE), "WARNING")
       ELSE Returns(Bool(FALSE), "ERROR")
  ELSE Propagates(e)

bucket_exists(t, bucket_name) ==
  /\ Ready(t)
  /\ \E fault \in Faults :
       LET r == SdkBucketExists(bucket_name, fault)
           h == IF r.exc = "None" THEN bucket_exists_return(r.val)
                ELSE bucket_exists_except(r.exc, Str(r.exc, bucket_name))
       IN last' = Method("bucket_exists", t, bucket_name, NoName, NoPath, r.exc, h)
  /\ UNCHANGED <<svc, files, logger, inst, hist>>

\* The names taken from an iterator already run through.
list_files_return_exhausted(file_names) == Returns(List(<<>>), "INFO")

\* file_names = [blob.name for blob in blobs]; ...; return file_names
list_files_return(file_names) == Returns(List(file_names), "INFO")

list_files_except(e) ==
  IF IsInstance(e, "Exception") THEN Returns(List(<<>>), "ERROR") ELSE Propagates(e)

list_files(t, bucket_name, prefix) ==
  /\ Ready(t)
  /\ \E fault \in Faults, order \in Orders(Matching(bucket_name, prefix)) :
       LET r == SdkListBlobs(bucket_name, prefix, fault, order)
           h == IF r.exc = "None" THEN list_files_return(r.val)
                ELSE list_files_except(r.exc)
       IN last' = Method("list_files", t, bucket_name, prefix, NoPath, r.exc, h)
  /\ UNCHANGED <<svc, files, logger, inst, hist>>

\* Only the service's errors caught: `except GoogleAPICallError`.
upload_file_except_api_only(e) ==
  IF IsInstance(e, "GoogleAPICallError") THEN Returns(Bool(FALSE), "ERROR")
  ELSE Propagates(e)

upload_file_except(e) ==
  IF IsInstance(e, "Exception") THEN Returns(Bool(FALSE), "ERROR") ELSE Propagates(e)

upload_file(t, bucket_name, source_file_name, destination_blob_name) ==
  /\ Ready(t)
  /\ \E fault \in Faults :
       LET k == Key(bucket_name, destination_blob_name)
           r == SdkUpload(bucket_name, destination_blob_name, source_file_name, fault)
           h == IF r.exc = "None" THEN Returns(Bool(TRUE), "NONE")
                ELSE upload_file_except(r.exc)
           done == h.outcome = "returned" /\ IsTrue(h.ret)
       IN /\ svcBlobs' = IF r.exc = "None" THEN r.val ELSE svcBlobs
          /\ uploadedOk' =
               IF done
               THEN [j \in DOMAIN uploadedOk \cup {k} |->
                       IF j = k THEN files[source_file_name] ELSE uploadedOk[j]]
               ELSE uploadedOk
          /\ deletedOk' = IF r.exc = "None" THEN deletedOk \ {k} ELSE deletedOk
          /\ last' = Method("upload_file", t, bucket_name, destination_blob_name,
                            source_file_name, r.exc, h)
  /\ UNCHANGED <<svcBuckets, files, logger, inst, createdOk>>

download_file_except(e) ==
  IF IsInstance(e, "Exception") THEN Returns(Bool(FALSE), "ERROR") ELSE Propagates(e)

download_file(t, bucket_name, source_blob_name, destination_file_name) ==
  /\ Ready(t)
  /\ \E fault \in Faults :
       LET r == SdkDownload(bucket_name, source_blob_name, fault)
           h == IF r.exc = "None" THEN Returns(Bool(TRUE), "NONE")
                ELSE download_file_except(r.exc)
       IN /\ IF r.exc = "None"
             THEN files' = [q \in DOMAIN files \cup {destination_file_name} |->
                              IF q = destination_file_name THEN r.val ELSE files[q]]
             ELSE files' \in FilesAfterFailedDownload(destination_file_name)
          /\ last' = Method("download_file", t, bucket_name, source_blob_name,
                            destination_file_name, r.exc, h)
  /\ UNCHANGED <<svc, logger, inst, hist>>

\* The properties read without blob.reload(): only the name is known.
Metadata_unloaded(blob) == [NoMeta EXCEPT !.name = blob.name]

\* metadata = {'name': blob.name, 'size': blob.size, ...}
Metadata(blob) ==
  [name |-> blob.name, size |-> blob.size, content_type |-> blob.content_type,
   created |-> blob.time_created, updated |-> blob.updated,
   md5_hash |-> blob.md5_hash]

\* The `except NotFound` clause left out.
get_file_metadata_except_generic(e) ==
  IF IsInstance(e, "Exception") THEN Returns(None, "ERROR") ELSE Propagates(e)

get_file_metadata_except(e) ==
  IF IsInstance(e, "NotFound") THEN Returns(None, "WARNING")
  ELSE IF IsInstance(e, "Exception") THEN Returns(None, "ERROR")
  ELSE Propagates(e)

get_file_metadata(t, bucket_name, blob_name) ==
  /\ Ready(t)
  /\ \E fault \in Faults :
       LET r == SdkReload(bucket_name, blob_name, fault)
           h == IF r.exc = "None" THEN Returns(Dict(Metadata(r.val)), "NONE")
                ELSE get_file_metadata_except(r.exc)
       IN last' = Method("get_file_metadata", t, bucket_name, blob_name, NoPath, r.exc, h)
  /\ UNCHANGED <<svc, files, logger, inst, hist>>

delete_file_except(e) ==
  IF IsInstance(e, "Exception") THEN Returns(Bool(FALSE), "ERROR") ELSE Propagates(e)

delete_file(t, bucket_name, blob_name) ==
  /\ Ready(t)
  /\ \E fault \in Faults :
       LET k == Key(bucket_name, blob_name)
           r == SdkDeleteBlob(bucket_name, blob_name, fault)
           h == IF r.exc = "None" THEN Returns(Bool(TRUE), "NONE")
                ELSE delete_file_except(r.exc)
       IN /\ svcBlobs' = IF r.exc = "None" THEN r.val ELSE svcBlobs
          /\ uploadedOk' = IF r.exc = "None"
                            THEN [j \in DOMAIN uploadedOk \ {k} |-> uploadedOk[j]]
                            ELSE uploadedOk
          /\ deletedOk' = IF h.outcome = "returned" /\ IsTrue(h.ret)
                          THEN deletedOk \cup {k} ELSE deletedOk
          /\ last' = Method("delete_file", t, bucket_name, blob_name, NoPath, r.exc, h)
  /\ UNCHANGED <<svcBuckets, files, logger, inst, createdOk>>

delete_bucket_except(e) ==
  IF IsInstance(e, "Exception") THEN Returns(Bool(FALSE), "ERROR") ELSE Propagates(e)

delete_bucket(t, bucket_name) ==
  /\ Ready(t)
  /\ \E fault \in Faults :
       LET r == SdkDeleteBucket(bucket_name, fault)
           h == IF r.exc = "None" THEN Returns(Bool(TRUE), "NONE")
                ELSE delete_bucket_except(r.exc)
       IN /\ svcBuckets' = IF r.exc = "None" THEN r.val ELSE svcBuckets
          /\ createdOk' = IF r.exc = "None" THEN createdOk \ {bucket_name}
                          ELSE createdOk
          /\ last' = Method("delete_bucket", t, bucket_name, NoName, NoPath, r.exc, h)
  /\ UNCHANGED <<svcBlobs, files, logger, inst, uploadedOk, deletedOk>>

-----------------------------------------------------------------------------
(* The process: constructions and calls, one after another.                *)

NoCall ==
  [op |-> "none", self |-> 0, bucket |-> NoName, blob |-> NoName, path |-> NoPath,
   cause |-> "None", outcome |-> "returned", ret |-> None, logged |-> "NONE",
   emitted |-> 0, client |-> FALSE]

NewInst == [pc |-> "new", log_level |-> "INFO", client |-> FALSE]

Init ==
  /\ svcBuckets = {}
  /\ svcBlobs = <<>>
  /\ \E c \in Contents : files = [p \in {"README"} |-> c]
  /\ handlers = <<>>
  /\ loggerLevel = "NONE"
  /\ inst = [t \in Threads |-> NewInst]
  /\ last = NoCall
  /\ createdOk = {}
  /\ uploadedOk = <<>>
  /\ deletedOk = {}

\* A process that builds one client, at the default log level, and works
\* with it.
Next ==
  \/ \E env \in CtorEnvs : __init__(1, DefaultLogLevel, env)
  \/ \E t \in Threads, b \in BucketNames : create_bucket(t, b)
  \/ \E t \in Threads : list_buckets(t)
  \/ \E t \in Threads, b \in BucketNames : bucket_exists(t, b)
  \/ \E t \in Threads, b \in BucketNames, p \in Prefixes : list_files(t, b, p)
  \/ \E t \in Threads, b \in BucketNames, p \in Paths, o \in BlobNames :
       upload_file(t, b, p, o)
  \/ \E t \in Threads, b \in BucketNames, o \in BlobNames, p \in Destinations :
       download_file(t, b, o, p)
  \/ \E t \in Threads, b \in BucketNames, o \in BlobNames : get_file_metadata(t, b, o)
  \/ \E t \in Threads, b \in BucketNames, o \in BlobNames : delete_file(t, b, o)
  \/ \E t \in Threads, b \in BucketNames : delete_bucket(t, b)

Spec == Init /\ [][Next]_vars

\* A process that builds clients one after another and calls them, against
\* a project that holds no bucket.
NextCtor ==
  \/ \E t \in Threads, lvl \in LogLevels, env \in CtorEnvs : __init__(t, lvl, env)
  \/ \E t \in Threads : list_buckets(t)
  \/ \E t \in Threads, b \in BucketNames : bucket_exists(t, b)
  \/ \E t \in Threads, b \in BucketNames, o \in BlobNames : get_file_metadata(t, b, o)

SpecCtor == Init /\ [][NextCtor]_vars

\* Threads that each build a client, their constructors interleaved.
NextConc ==
  \/ \E t \in Threads, lvl \in LogLevels : init_logger(t, lvl)
  \/ \E t \in Threads : init_check(t)
  \/ \E t \in Threads : init_attach(t)
  \/ \E t \in Threads, env \in CtorEnvs : init_try(t, env)

SpecConc == Init /\ [][NextConc]_vars

-----------------------------------------------------------------------------
(* Properties                                                              *)

Methods ==
  {"create_bucket", "list_buckets", "bucket_exists", "list_files", "upload_file",
   "download_file", "get_file_metadata", "delete_file", "delete_bucket"}

Mutating ==
  {"create_bucket", "upload_file", "download_file", "delete_file", "delete_bucket"}

\* The documented value a method returns in place of a failure.
Sentinel(op) ==
  CASE op \in {"list_buckets", "list_files"} -> List(<<>>)
    [] op = "get_file_metadata" -> None
    [] OTHER -> Bool(FALSE)

LastKey == Key(last.bucket, last.blob)

\* C1: no method lets a failure of its SDK call reach the caller: it logs
\* and returns its sentinel (False, [] or None); a mutating method whose
\* call succeeds returns True.
C1_FailureBecomesSentinel ==
  last.op \in Methods =>
    /\ last.outcome = "returned"
    /\ last.cause # "None" => last.ret = Sentinel(last.op) /\ last.logged # "NONE"
    /\ last.cause = "None" /\ last.op \in Mutating => IsTrue(last.ret)

\* A non-empty bucket refused by the service comes back as False.
C1_Witness ==
  /\ last.op = "delete_bucket"
  /\ last.cause = "Conflict"
  /\ last.ret = Bool(FALSE)

\* C2: a constructor whose credential loading or client building fails
\* logs at error level, raises that same failure and sets no client.
C2_ConstructionFailureRaised ==
  last.op = "__init__" /\ last.cause # "None" =>
    /\ last.outcome = "raised"
    /\ last.ret = Exc(last.cause)
    /\ last.logged = "ERROR"
    /\ ~last.client
    /\ ~inst[last.self].client

\* GOOGLE_APPLICATION_CREDENTIALS is not set.
C2_Witness ==
  /\ last.op = "__init__"
  /\ last.cause = "TypeError"
  /\ last.outcome = "raised"
  /\ inst[last.self].pc = "raised"

\* C3: bucket_exists returns False on every failure, logging at warning
\* level for a permission-denied (403) failure and at error level for
\* every other failure, whatever the bucket name or message.
C3_LevelByFailureKind ==
  last.op = "bucket_exists" /\ last.cause # "None" =>
    /\ last.outcome = "returned"
    /\ last.ret = Bool(FALSE)
    /\ last.logged = IF last.cause = "Forbidden" THEN "WARNING" ELSE "ERROR"

NotFoundMethods ==
  {"get_file_metadata", "download_file", "delete_file", "delete_bucket",
   "list_files", "upload_file"}

\* C4 as claimed: every method whose target does not exist logs the
\* not-found failure at warning level and returns its sentinel.
C4_NotFoundLoggedAtWarning ==
  last.op \in NotFoundMethods /\ last.cause = "NotFound" =>
    last.logged = "WARNING" /\ last.ret = Sentinel(last.op)

\* C4, amended: a method whose target does not exist returns its sentinel;
\* get_file_metadata logs the not-found failure at warning level, the
\* other methods log it at error level.
C4_NotFoundLevelPerMethod ==
  last.op \in NotFoundMethods /\ last.cause = "NotFound" =>
    /\ last.outcome = "returned"
    /\ last.ret = Sentinel(last.op)
    /\ last.logged = IF last.op = "get_file_metadata" THEN "WARNING" ELSE "ERROR"

\* A delete of an object that is not there, logged at error level.
C4_Witness ==
  /\ last.op = "delete_file"
  /\ last.cause = "NotFound"
  /\ last.logged = "ERROR"
  /\ last.ret = Bool(FALSE)

\* C5 as claimed: bucket_exists(B) returns False while B does not exist,
\* and True once create_bucket(B) has returned True and no delete_bucket(B)
\* has removed it.
C5_ExistsAfterCreate ==
  last.op = "bucket_exists" =>
    /\ last.bucket \notin svcBuckets => last.ret = Bool(FALSE)
    /\ last.bucket \in createdOk => last.ret = Bool(TRUE)

\* C5, amended: bucket_exists(B) returns False while B does not exist;
\* once create_bucket(B) has returned True and no delete_bucket(B) has
\* removed it, bucket_exists(B) returns True when its existence check
\* succeeds, and False when the check fails.
C5_ExistsAfterCreateUnlessFailure ==
  last.op = "bucket_exists" =>
    /\ last.outcome = "returned"
    /\ last.bucket \notin svcBuckets => last.ret = Bool(FALSE)
    /\ last.bucket \in createdOk /\ last.cause = "None" => last.ret = Bool(TRUE)
    /\ last.cause # "None" => last.ret = Bool(FALSE)

\* An existence check of a created bucket that succeeded.
C5_Witness ==
  /\ last.op = "bucket_exists"
  /\ last.bucket \in createdOk
  /\ last.cause = "None"
  /\ last.ret = Bool(TRUE)
  /\ svcBuckets # BucketNames

\* C6 as claimed: once upload_file(bucket, path, obj) has returned True,
\* list_files(bucket) contains obj, and download_file(bucket, obj, out)
\* returns True and leaves at out the content uploaded.
C6_RoundTrip ==
  /\ last.op = "list_files" /\ last.blob = <<>> =>
       \A o \in BlobNames :
         Key(last.bucket, o) \in DOMAIN uploadedOk =>
           last.ret.kind = "list" /\ o \in Range(last.ret.names)
  /\ last.op = "download_file" /\ LastKey \in DOMAIN uploadedOk =>
       /\ IsTrue(last.ret)
       /\ last.path \in DOMAIN files
       /\ files[last.path] = uploadedOk[LastKey]

\* C6, amended: once upload_file(bucket, path, obj) has returned True (and
\* obj has not been deleted since), a list_files(bucket) whose listing
\* succeeds contains obj, and a download_file(bucket, obj, out) whose
\* download succeeds returns True and leaves at out the content uploaded;
\* when the listing or the download fails they return [] and False.
C6_RoundTripUnlessFailure ==
  /\ last.op = "list_files" =>
       /\ last.outcome = "returned" /\ last.ret.kind = "list"
       /\ last.blob = <<>> /\ last.cause = "None" =>
            \A o \in BlobNames :
              Key(last.bucket, o) \in DOMAIN uploadedOk => o \in Range(last.ret.names)
       /\ last.cause # "None" => last.ret = List(<<>>)
  /\ last.op = "download_file" =>
       /\ last.outcome = "returned" /\ last.ret.kind = "bool"
       /\ LastKey \in DOMAIN uploadedOk /\ last.cause = "None" =>
            /\ IsTrue(last.ret)
            /\ last.path \in DOMAIN files
            /\ files[last.path] = uploadedOk[LastKey]
       /\ last.cause # "None" => last.ret = Bool(FALSE)

\* A download of an uploaded, non-empty object into a file that differs
\* from the one uploaded.
C6_Witness ==
  /\ last.op = "download_file"
  /\ LastKey \in DOMAIN uploadedOk
  /\ last.cause = "None"
  /\ IsTrue(last.ret)
  /\ last.path = "out"
  /\ files["out"] = uploadedOk[LastKey]
  /\ files["out"] # <<>>

MetadataKeys == {"name", "size", "content_type", "created", "updated", "md5_hash"}

\* The record get_file_metadata owes for an object uploaded with `data`.
GoodMetadata(v, o, data) ==
  /\ v.kind = "dict"
  /\ DOMAIN v.meta = MetadataKeys
  /\ v.meta.name = o
  /\ v.meta.size = Len(data)
  /\ v.meta.md5_hash # <<>>

\* C7 as claimed: after a successful upload of obj, get_file_metadata
\* returns a record with the six keys, the name obj, the uploaded length
\* and a non-empty md5_hash; after delete_file returned True it returns None.
C7_MetadataAfterUpload ==
  last.op = "get_file_metadata" =>
    /\ LastKey \in DOMAIN uploadedOk =>
         GoodMetadata(last.ret, last.blob, uploadedOk[LastKey])
    /\ LastKey \in deletedOk => last.ret = None

\* C7, amended: after a successful upload of obj, a get_file_metadata whose
\* reload succeeds returns a record with the six keys, the name obj, the
\* uploaded length and a non-empty md5_hash, and one whose reload fails
\* returns None; after delete_file returned True it returns None.
C7_MetadataAfterUploadUnlessFailure ==
  last.op = "get_file_metadata" =>
    /\ last.outcome = "returned"
    /\ LastKey \in DOMAIN uploadedOk /\ last.cause = "None" =>
         GoodMetadata(last.ret, last.blob, uploadedOk[LastKey])
    /\ last.cause # "None" => last.ret = None
    /\ LastKey \in deletedOk => last.ret = None

\* Metadata asked for after an upload, a delete and a second upload.
C7_Witness ==
  /\ last.op = "get_file_metadata"
  /\ LastKey \in DOMAIN uploadedOk
  /\ last.cause = "None"
  /\ GoodMetadata(last.ret, last.blob, uploadedOk[LastKey])
  /\ last.ret.meta.size > 0
  /\ \E k \in deletedOk : k # LastKey

Constructed == {t \in Threads : inst[t].pc \in {"ready", "raised"}}

\* C8: after one or more constructions, one after another, failed or not,
\* the named logger holds exactly one handler, and a message that passes
\* the level is written once.
C8_OneHandler ==
  Constructed # {} =>
    /\ Len(handlers) = 1
    /\ last.emitted <= 1
    /\ last.logged # "NONE" /\ LevelNo[last.logged] >= LevelNo[loggerLevel] =>
         last.emitted = 1

\* Every construction of the process done, one of them failed, and a
\* message written.
C8_Witness ==
  /\ Constructed = Threads
  /\ \E t \in Threads : inst[t].pc = "raised"
  /\ \E t \in Threads : inst[t].pc = "ready"
  /\ Len(handlers) = 1
  /\ last.emitted = 1

\* C9: a message logged by an instance's method is filtered at the
\* log_level that instance was constructed with.
C9_LevelPerInstance ==
  last.op \in Methods =>
    (last.emitted > 0 <=>
       /\ last.logged # "NONE"
       /\ LevelNo[last.logged] >= LevelNo[inst[last.self].log_level])

\* C10: however constructions interleave, the named logger ends with at
\* most one handler.
C10_AtMostOneHandlerConcurrently == Len(handlers) <= 1

====
